---- MODULE Spec2Model ----
(***************************************************************************)
(* A model of the resumable crawl engine of download.py: the task          *)
(* partitioner, the progress store (track.json) and its lock, and the      *)
(* pager loop of one Downloader with its session, request dispatch,        *)
(* result processing and document fetch.                                   *)
(*                                                                         *)
(* Three specifications share the variables:                               *)
(*   SpecPart   generate_tasks / get_date_ranges_to_process                *)
(*   SpecStore  concurrent Downloaders checkpointing through               *)
(*              save_court_tracking_date                                   *)
(*   Spec       one Downloader running download() or process_court()       *)
(*              against a nondeterministic portal                          *)
(***************************************************************************)
EXTENDS Integers, Sequences, FiniteSets, TLC

(***************************************************************************)
(* Dates.  A date string "YYYY-MM-DD" is the tuple <<y, m, d>>; a datetime *)
(* is an integer count of half days since the epoch of the model's         *)
(* calendar window (an even value is a midnight, an odd one a time of day  *)
(* within that day), so that datetime.now() and the midnights that         *)
(* strptime yields compare as they do in Python.                           *)
(***************************************************************************)
NoDate == <<>>

\* The first day of the calendar window (ordinal 0): the window crosses a
\* year boundary and holds START_DATE.
Epoch == <<2007, 12, 29>>

\* Bounds of the partitioner's inputs.
MaxDay == 7
MaxStep == 3

IsLeap(y) == (y % 4 = 0 /\ y % 100 # 0) \/ y % 400 = 0

DaysInMonth(y, m) ==
    IF m = 2 THEN (IF IsLeap(y) THEN 29 ELSE 28)
    ELSE IF m \in {4, 6, 9, 11} THEN 30 ELSE 31

NextDay(s) ==
    IF s[3] < DaysInMonth(s[1], s[2]) THEN <<s[1], s[2], s[3] + 1>>
    ELSE IF s[2] < 12 THEN <<s[1], s[2] + 1, 1>>
    ELSE <<s[1] + 1, 1, 1>>

RECURSIVE DateOfOrdinal(_)
DateOfOrdinal(n) ==
    IF n = 0 THEN Epoch ELSE NextDay(DateOfOrdinal(n - 1))

Horizon == MaxDay + MaxStep + 2

DateTable == [n \in 0..Horizon |-> DateOfOrdinal(n)]

Ordinal(s) == CHOOSE n \in 0..Horizon : DateTable[n] = s

\* datetime.strptime(s, "%Y-%m-%d"): the midnight of the day
Strptime(s) == 2 * Ordinal(s)

\* dt.strftime("%Y-%m-%d"): the time of day is dropped
Strftime(dt) == DateTable[dt \div 2]

\* timedelta(days=n)
Timedelta(n) == 2 * n

\* dt.date()
DateOf(dt) == dt \div 2

Min(a, b) == IF a <= b THEN a ELSE b

START_DATE == <<2008, 1, 1>>

Courts == <<"c1", "c2">>

CourtSet == {Courts[i] : i \in 1..Len(Courts)}

\* An entry of track.json; a missing key is NoDate / the empty list, and a
\* court without an entry reads as {} (.get(court_code, {})).
EmptyTracking == [last_date |-> NoDate, failed_dates |-> <<>>]

VARIABLES
    now,        \* datetime.now(), in half days
    track,      \* the contents of track.json: court -> entry
    p_args,     \* generate_tasks' arguments: [start_date, end_date, day_step]
    p_ci,       \* index in Courts of the court being expanded
    p_pc,       \* "call" | "loop" | "yielded" | "done": position in the
                \* generator
    p_cur,      \* current_date
    p_end,      \* end_date_dt
    p_out,      \* the tasks yielded so far: <<[court, from_date, to_date]>>
    lock,       \* the module's threading.Lock: "free" or its holder
    s_court,    \* Downloader -> its task's court_code
    s_pc,       \* Downloader -> position in __init__ / process_court
    s_ct,       \* Downloader -> self.court_tracking
    s_range,    \* Downloader -> <<from_date, to_date>> of process_court
    s_td,       \* Downloader -> tracking_data read inside a checkpoint
    s_after,    \* Downloader -> where process_court goes on after the save
    s_last,     \* court -> the entry handed to its most recent checkpoint
    dl,         \* the Downloader of Spec: its fields and the locals of its
                \* running download() / process_court()
    fs,         \* the output directory: descriptors and content files
    portal,     \* the portal: the listing, the token it issued last, and
                \* how many more faulty responses it may give
    obs,        \* observations of the run that the claims are stated on
    cap,        \* one solve_captcha call: its arguments, position and files
    sch,        \* run(): the task list, the pool's workers and futures
    inc,        \* download_court_data / run_incremental_download: the
                \* arguments, position and the task created
    cc          \* process_result_row calls of two pool workers for rows
                \* with one document reference, and the files they share

partVars == <<p_args, p_ci, p_pc, p_cur, p_end, p_out>>

storeVars == <<lock, s_court, s_pc, s_ct, s_range, s_td, s_after, s_last>>

pagerVars == <<dl, fs, portal, obs>>

extraVars == <<cap, sch, inc, cc>>

vars == <<now, track, partVars, storeVars, pagerVars, extraVars>>

(***************************************************************************)
(* Task partitioner                                                        *)
(***************************************************************************)

\* court_tracking.get("last_date", START_DATE)
LastDateOrDayBefore(ct) ==
    IF ct.last_date = NoDate THEN <<2007, 12, 31>> ELSE ct.last_date
LastDateOrDefault(ct) == IF ct.last_date = NoDate THEN START_DATE ELSE ct.last_date

\* min(current_date + timedelta(days=day_step - 1), end_date_dt)
RangeEndUnclamped(cur, step, endDt) == cur + Timedelta(step - 1)
RangeEnd(cur, step, endDt) == Min(cur + Timedelta(step - 1), endDt)

\* current_date = range_end + timedelta(days=1)
NextCurrent(rangeEnd) == rangeEnd + Timedelta(1)

\* the resume point: strptime(last_date) + timedelta(days=1)
ResumeStartSameDay(last_date) == Strptime(last_date)
ResumeStart(last_date) == Strptime(last_date) + Timedelta(1)

\* "if start_date and not end_date: end_date = now().strftime(...)"
EffectiveEnd(a) ==
    IF a.start_date # NoDate /\ a.end_date = NoDate THEN Strftime(now) ELSE a.end_date

Explicit(a) == a.start_date # NoDate /\ EffectiveEnd(a) # NoDate

\* The tasks are collected in a list (run: list(generate_tasks(...))), of
\* which the first MaxOut entries are kept here: more than any partition of
\* the window with day_step >= 1 has.
MaxOut == 2 * (Horizon + 1)

Collect(out, task) == IF Len(out) < MaxOut THEN Append(out, task) ELSE out

\* The first next() on get_date_ranges_to_process(code, ...): the branch is
\* chosen and the loop bounds are computed.
GenCall ==
    /\ p_pc = "call"
    /\ p_ci <= Len(Courts)
    /\ IF Explicit(p_args)
       THEN /\ p_cur' = Strptime(p_args.start_date)
            /\ p_end' = Strptime(EffectiveEnd(p_args))
       ELSE /\ p_cur' = ResumeStart(LastDateOrDefault(track[Courts[p_ci]]))
            /\ p_end' = now
    /\ p_pc' = "loop"
    /\ UNCHANGED <<now, track, p_args, p_ci, p_out, storeVars, pagerVars, extraVars>>

\* "while current_date <= end_date_dt" holds: a range is yielded, which
\* generate_tasks wraps in a CourtDateTask, and the generator is suspended
\* at its yield.
GenYield ==
    /\ p_pc = "loop"
    /\ p_cur <= p_end
    /\ LET range_end == RangeEnd(p_cur, p_args.day_step, p_end)
       IN p_out' = Collect(p_out, [court |-> Courts[p_ci],
                                   from_date |-> Strftime(p_cur),
                                   to_date |-> Strftime(range_end)])
    /\ p_pc' = "yielded"
    /\ UNCHANGED <<now, track, p_args, p_ci, p_cur, p_end, storeVars, pagerVars, extraVars>>

\* The consumer's next(): the generator resumes after the yield with
\* "current_date = range_end + timedelta(days=1)" and tests the loop again.
GenResume ==
    /\ p_pc = "yielded"
    /\ p_cur' = NextCurrent(RangeEnd(p_cur, p_args.day_step, p_end))
    /\ p_pc' = "loop"
    /\ UNCHANGED <<now, track, p_args, p_ci, p_end, p_out, storeVars, pagerVars, extraVars>>

\* The loop ends; generate_tasks moves to the next court code.
GenNextCourt ==
    /\ p_pc = "loop"
    /\ ~(p_cur <= p_end)
    /\ p_ci' = p_ci + 1
    /\ p_pc' = IF p_ci = Len(Courts) THEN "done" ELSE "call"
    /\ UNCHANGED <<now, track, p_args, p_cur, p_end, p_out, storeVars, pagerVars, extraVars>>

WindowDates == {DateTable[n] : n \in 0..MaxDay}

TrackingEntries ==
    [last_date : WindowDates \cup {NoDate}, failed_dates : {<<>>}]

\* The variables of the partitioner while another specification runs.
PartIdle ==
    /\ p_args = [start_date |-> NoDate, end_date |-> NoDate, day_step |-> 1]
    /\ p_ci = 1
    /\ p_pc = "idle"
    /\ p_cur = 0
    /\ p_end = 0
    /\ p_out = <<>>

Downloaders == {"d1", "d2"}

NoCheckpoint == [none |-> TRUE]

\* The variables of SpecStore while another specification runs.
StoreIdle ==
    /\ lock = "free"
    /\ s_court = [d \in Downloaders |-> "c1"]
    /\ s_pc = [d \in Downloaders |-> "idle"]
    /\ s_ct = [d \in Downloaders |-> EmptyTracking]
    /\ s_range = [d \in Downloaders |-> <<NoDate, NoDate>>]
    /\ s_td = [d \in Downloaders |-> <<>>]
    /\ s_after = [d \in Downloaders |-> "loop"]
    /\ s_last = [c \in CourtSet |-> NoCheckpoint]

\* The variables of Spec while another specification runs.
PagerIdle ==
    /\ dl = [pc |-> "idle"]
    /\ fs = [idle |-> TRUE]
    /\ portal = [idle |-> TRUE]
    /\ obs = [idle |-> TRUE]

\* The variables of SpecCaptcha and SpecRun while another specification runs.
CapIdle == cap = [pc |-> "idle"]

SchIdle == sch = [pc |-> "idle"]

IncIdle == inc = [pc |-> "idle"]

RowsIdle == cc = [pc |-> "idle"]

PartInit ==
    /\ StoreIdle
    /\ PagerIdle
    /\ CapIdle
    /\ SchIdle
    /\ IncIdle
    /\ RowsIdle
    /\ now \in 0..(2 * MaxDay + 1)
    /\ \/ /\ p_args \in [start_date : WindowDates,
                         end_date : WindowDates \cup {NoDate},
                         day_step : 1..MaxStep]
          /\ track = [c \in CourtSet |-> EmptyTracking]
       \/ /\ p_args \in [start_date : {NoDate}, end_date : {NoDate},
                         day_step : 1..MaxStep]
          /\ track \in [CourtSet -> TrackingEntries]
    /\ p_ci = 1
    /\ p_pc = "call"
    /\ p_cur = 0
    /\ p_end = 0
    /\ p_out = <<>>

PartNext == GenCall \/ GenYield \/ GenResume \/ GenNextCourt

SpecPart == PartInit /\ [][PartNext]_vars

\* --day_step is parsed with type=int and passed on unchecked: here it also
\* takes the values from MinStep up.  The generator's consumer keeps calling
\* next() while the generator has a step to take.
MinStep == 0

PartAnyInit ==
    /\ StoreIdle
    /\ PagerIdle
    /\ CapIdle
    /\ SchIdle
    /\ IncIdle
    /\ RowsIdle
    /\ now \in 0..(2 * MaxDay + 1)
    /\ \/ /\ p_args \in [start_date : WindowDates \ {Epoch},
                         end_date : WindowDates \cup {NoDate},
                         day_step : MinStep..MaxStep]
          /\ track = [c \in CourtSet |-> EmptyTracking]
       \/ /\ p_args \in [start_date : {NoDate}, end_date : {NoDate},
                         day_step : MinStep..MaxStep]
          /\ track \in [CourtSet -> TrackingEntries]
    /\ p_ci = 1
    /\ p_pc = "call"
    /\ p_cur = 0
    /\ p_end = 0
    /\ p_out = <<>>

SpecPartAny == PartAnyInit /\ [][PartNext]_vars /\ WF_vars(PartNext)

(***************************************************************************)
(* Progress store: Downloaders of SpecStore run process_court's checkpoint *)
(* logic in worker threads; one loop iteration's search and row handling   *)
(* is a single step whose outcome the portal decides, and                  *)
(* save_court_tracking_date is split at its lock, read and write.          *)
(***************************************************************************)

\* The day SpecStore runs on, as an ordinal of the calendar window.
StoreToday == 5

\* lock.acquire() returns only when the lock is free
LockAlwaysFree == TRUE
LockFree == lock = "free"

\* get_tracking_data(): the parsed contents of track.json
GetTrackingData == track

\* track.json after open("./track.json", "w") and before json.dump has
\* written it: an empty file, on which json.load raises
Truncated == <<>>

Readable(td) == td # Truncated

\* tracking_data[court_code] = court_tracking
WithCourt(td, c, ct) == [td EXCEPT ![c] = ct]

\* get_new_date_range(last_date, day_step)
GetNewDateRange(last_date, day_step) ==
    LET new_from == Strptime(last_date) + Timedelta(1)
        new_to == new_from + Timedelta(day_step - 1)
    IN IF DateOf(new_from) > DateOf(now) THEN <<NoDate, NoDate>>
       ELSE <<Strftime(new_from),
              IF DateOf(new_to) > DateOf(now)
              THEN DateTable[DateOf(now)] ELSE Strftime(new_to)>>

AppendIfAbsent(seq, x) ==
    IF \E i \in 1..Len(seq) : seq[i] = x THEN seq ELSE Append(seq, x)

\* "if from_date not in failed_dates: failed_dates.append(from_date)"
CtFailed(ct, from_date) ==
    [ct EXCEPT !.failed_dates = AppendIfAbsent(@, from_date)]

\* self.court_tracking["last_date"] = to_date
CtCompleted(ct, to_date) == [ct EXCEPT !.last_date = to_date]

\* Downloader.__init__: tracking_data is read (no lock is taken) and the
\* court's entry kept as self.court_tracking.
Construct(d) ==
    /\ s_pc[d] = "new"
    /\ IF Readable(GetTrackingData)
       THEN /\ s_ct' = [s_ct EXCEPT ![d] = GetTrackingData[s_court[d]]]
            /\ s_pc' = [s_pc EXCEPT ![d] = "constructed"]
       ELSE /\ s_pc' = [s_pc EXCEPT ![d] = "raised"]
            /\ UNCHANGED s_ct
    /\ UNCHANGED <<now, track, partVars, lock, s_court, s_range, s_td, s_after, s_last, pagerVars, extraVars>>

\* process_court up to its loop: the first range after last_date.
ProcessCourtStart(d) ==
    /\ s_pc[d] = "constructed"
    /\ LET r == GetNewDateRange(LastDateOrDefault(s_ct[d]), 1)
       IN /\ s_range' = [s_range EXCEPT ![d] = r]
          /\ s_pc' = [s_pc EXCEPT ![d] = IF r[1] = NoDate THEN "done" ELSE "loop"]
    /\ UNCHANGED <<now, track, partVars, lock, s_court, s_ct, s_td, s_after, s_last, pagerVars, extraVars>>

\* An iteration whose page held a row that was not freshly downloaded: the
\* range's from_date joins failed_dates in memory and the loop goes on.
IterRowNotDownloaded(d) ==
    /\ s_pc[d] = "loop"
    /\ s_ct' = [s_ct EXCEPT ![d] = CtFailed(@, s_range[d][1])]
    /\ UNCHANGED <<now, track, partVars, lock, s_court, s_pc, s_range, s_td, s_after, s_last, pagerVars, extraVars>>

\* An iteration whose response held no rows: last_date becomes to_date and
\* save_court_tracking_date is called.
IterNoResults(d) ==
    /\ s_pc[d] = "loop"
    /\ s_ct' = [s_ct EXCEPT ![d] = CtCompleted(@, s_range[d][2])]
    /\ s_pc' = [s_pc EXCEPT ![d] = "acquire"]
    /\ s_after' = [s_after EXCEPT ![d] = "advance"]
    /\ UNCHANGED <<now, track, partVars, lock, s_court, s_range, s_td, s_last, pagerVars, extraVars>>

\* An iteration that raised: from_date joins failed_dates and
\* save_court_tracking_date is called from the handler.
IterException(d) ==
    /\ s_pc[d] = "loop"
    /\ s_ct' = [s_ct EXCEPT ![d] = CtFailed(@, s_range[d][1])]
    /\ s_pc' = [s_pc EXCEPT ![d] = "acquire"]
    /\ s_after' = [s_after EXCEPT ![d] = "loop"]
    /\ UNCHANGED <<now, track, partVars, lock, s_court, s_range, s_td, s_last, pagerVars, extraVars>>

\* save_court_tracking_date: lock.acquire()
SaveAcquire(d) ==
    /\ s_pc[d] = "acquire"
    /\ LockFree
    /\ lock' = d
    /\ s_last' = [s_last EXCEPT ![s_court[d]] = s_ct[d]]
    /\ s_pc' = [s_pc EXCEPT ![d] = "read"]
    /\ UNCHANGED <<now, track, partVars, s_court, s_ct, s_range, s_td, s_after, pagerVars, extraVars>>

\* save_court_tracking_date: tracking_data = get_tracking_data()
SaveRead(d) ==
    /\ s_pc[d] = "read"
    /\ IF Readable(GetTrackingData)
       THEN /\ s_td' = [s_td EXCEPT ![d] = GetTrackingData]
            /\ s_pc' = [s_pc EXCEPT ![d] = "write"]
       ELSE /\ s_pc' = [s_pc EXCEPT ![d] = "raised"]
            /\ UNCHANGED s_td
    /\ UNCHANGED <<now, track, partVars, lock, s_court, s_ct, s_range, s_after, s_last, pagerVars, extraVars>>

\* save_court_tracking_date: the court's entry is set and the whole
\* dictionary written back (save_tracking_data).
SaveWrite(d) ==
    /\ s_pc[d] = "write"
    /\ track' = WithCourt(s_td[d], s_court[d], s_ct[d])
    /\ s_td' = [s_td EXCEPT ![d] = <<>>]
    /\ s_pc' = [s_pc EXCEPT ![d] = "release"]
    /\ UNCHANGED <<now, partVars, lock, s_court, s_ct, s_range, s_after, s_last, pagerVars, extraVars>>

\* save_court_tracking_date: lock.release(), and process_court goes on:
\* after a completed range with the next range (or it ends), after a
\* failure with another pass of the loop.
SaveRelease(d) ==
    /\ s_pc[d] = "release"
    /\ lock' = "free"
    /\ IF s_after[d] = "advance"
       THEN LET r == GetNewDateRange(s_range[d][2], 1)
            IN /\ s_pc' = [s_pc EXCEPT ![d] = IF r[1] = NoDate THEN "done" ELSE "loop"]
               /\ s_range' = [s_range EXCEPT ![d] = IF r[1] = NoDate THEN @ ELSE r]
       ELSE /\ s_pc' = [s_pc EXCEPT ![d] = "loop"]
            /\ UNCHANGED s_range
    /\ UNCHANGED <<now, track, partVars, s_court, s_ct, s_td, s_after, s_last, pagerVars, extraVars>>

StoreDates == {DateTable[n] : n \in (StoreToday - 2)..StoreToday}

StoreInit ==
    /\ PartIdle
    /\ PagerIdle
    /\ CapIdle
    /\ SchIdle
    /\ IncIdle
    /\ RowsIdle
    /\ now = 2 * StoreToday + 1
    /\ track \in [CourtSet -> [last_date : StoreDates \cup {NoDate},
                               failed_dates : {<<>>}]]
    /\ lock = "free"
    /\ s_court \in [Downloaders -> CourtSet]
    /\ s_pc = [d \in Downloaders |-> "new"]
    /\ s_ct = [d \in Downloaders |-> EmptyTracking]
    /\ s_range = [d \in Downloaders |-> <<NoDate, NoDate>>]
    /\ s_td = [d \in Downloaders |-> <<>>]
    /\ s_after = [d \in Downloaders |-> "loop"]
    /\ s_last = [c \in CourtSet |-> NoCheckpoint]

StoreNext ==
    \E d \in Downloaders :
        \/ Construct(d)
        \/ ProcessCourtStart(d)
        \/ IterRowNotDownloaded(d)
        \/ IterNoResults(d)
        \/ IterException(d)
        \/ SaveAcquire(d)
        \/ SaveRead(d)
        \/ SaveWrite(d)
        \/ SaveRelease(d)

SpecStore == StoreInit /\ [][StoreNext]_vars

(***************************************************************************)
(* The same threads with save_tracking_data split at the file system:      *)
(* open(..., "w") empties track.json, json.dump then writes the new        *)
(* contents, and the write may fail or the thread be interrupted between   *)
(* the two.                                                                *)
(***************************************************************************)

\* save_tracking_data: open("./track.json", "w")
SaveOpen(d) ==
    /\ s_pc[d] = "write"
    /\ track' = Truncated
    /\ s_pc' = [s_pc EXCEPT ![d] = "dump"]
    /\ UNCHANGED <<now, partVars, lock, s_court, s_ct, s_range, s_td, s_after, s_last, pagerVars, extraVars>>

\* save_tracking_data: json.dump(tracking_data, f) and the file is closed
SaveDump(d) ==
    /\ s_pc[d] = "dump"
    /\ track' = WithCourt(s_td[d], s_court[d], s_ct[d])
    /\ s_td' = [s_td EXCEPT ![d] = <<>>]
    /\ s_pc' = [s_pc EXCEPT ![d] = "release"]
    /\ UNCHANGED <<now, partVars, lock, s_court, s_ct, s_range, s_after, s_last, pagerVars, extraVars>>

\* save_tracking_data: the write fails (OSError) or the thread is
\* interrupted before anything reached the file; the exception leaves
\* save_court_tracking_date before lock.release().
SaveInterrupted(d) ==
    /\ s_pc[d] = "dump"
    /\ s_pc' = [s_pc EXCEPT ![d] = "interrupted"]
    /\ UNCHANGED <<now, track, partVars, lock, s_court, s_ct, s_range, s_td, s_after, s_last, pagerVars, extraVars>>

FileNext ==
    \E d \in Downloaders :
        \/ Construct(d)
        \/ ProcessCourtStart(d)
        \/ IterRowNotDownloaded(d)
        \/ IterNoResults(d)
        \/ IterException(d)
        \/ SaveAcquire(d)
        \/ SaveRead(d)
        \/ SaveOpen(d)
        \/ SaveDump(d)
        \/ SaveInterrupted(d)
        \/ SaveRelease(d)

SpecFile == StoreInit /\ [][FileNext]_vars


(***************************************************************************)
(* The pager: one Downloader running download() or process_court() against *)
(* the portal.  Every HTTP exchange is one step: the request is sent with  *)
(* the payload and cookie the code has at that point, the portal picks the *)
(* response, and the code that follows up to the next exchange runs in the *)
(* same step.                                                              *)
(***************************************************************************)

page_size == 5000
NO_CAPTCHA_BATCH_SIZE == 25
NOT_FOUND_SIZE == 315

\* The hard-coded tokens: self.app_token of __init__, and those inside the
\* payload and pdf_link_payload strings.  The portal's tokens are 1..NTok.
InitialAppToken == 0
SearchPayloadToken == -1
PdfPayloadToken == -2

\* None, for a cookie value
NoCookie == 0

\* Bounds of the portal.
NTok == 3          \* token values the portal cycles through
NCookie == 2       \* cookie values the portal cycles through
MaxFaults == 3     \* faulty responses in a run over a short listing
LongFaults == 1    \* faulty responses in a run over the long listing
LongExtra == 1     \* documents of the long listing beyond the batch size
GateFaults == 4    \* faulty responses in a run over the one-document listing
MaxNest == 2       \* CAPTCHA challenges answered to resubmissions, nested
OtherSize == 1024  \* a document body that is neither empty nor the sentinel

LongLen == NO_CAPTCHA_BATCH_SIZE + LongExtra

Stems == 1..LongLen

NoRef == [stem |-> 0, ext |-> ""]

Doc(n) == [kind |-> "doc", ref |-> [stem |-> n, ext |-> "pdf"]]
DocUpper(n) == [kind |-> "doc", ref |-> [stem |-> n, ext |-> "PDF"]]
NoButtonRow == [kind |-> "nobutton", ref |-> NoRef]
BadOnclickRow == [kind |-> "badonclick", ref |-> NoRef]

ShortListings ==
    { <<>>,
      <<Doc(1), Doc(2)>>,
      <<Doc(1), NoButtonRow, Doc(1)>>,
      <<Doc(2), BadOnclickRow, DocUpper(2)>> }

LongListing == [i \in 1..LongLen |-> Doc(i)]

GatedListing == <<Doc(1)>>

NewTok == (portal.token % NTok) + 1

NewCookie(c) == (c % NCookie) + 1

\* the JSESSION value of the next handshake response
NewPortalToken == (portal.jsession % NCookie) + 1

\* default_search_payload()
DefaultSearchPayload ==
    [sEcho |-> 1, iDisplayStart |-> 0, iDisplayLength |-> page_size,
     state_code |-> "27~1", from_date |-> NoDate, to_date |-> NoDate,
     app_token |-> SearchPayloadToken]

\* default_pdf_link_payload()
DefaultPdfLinkPayload ==
    [path |-> NoRef, val |-> 0, captcha1 |-> FALSE, app_token |-> PdfPayloadToken]

\* _prepare_next_iteration
PrepareNextIterationSameEcho(sp) == [sp EXCEPT !.iDisplayStart = @ + page_size]
PrepareNextIteration(sp) ==
    [sp EXCEPT !.sEcho = @ + 1, !.iDisplayStart = @ + page_size]

\* "if pdfs_downloaded >= NO_CAPTCHA_BATCH_SIZE"
ThresholdPassed(n) == n > NO_CAPTCHA_BATCH_SIZE
ThresholdReached(n) == n >= NO_CAPTCHA_BATCH_SIZE

\* the rows the portal lists for the range from the payload's cursor on
PageOf(sp) ==
    LET a == sp.iDisplayStart + 1
        b == Min(Len(portal.listing), sp.iDisplayStart + sp.iDisplayLength)
    IN IF a > b THEN <<>> ELSE SubSeq(portal.listing, a, b)

\* get_pdf_output_path(fragment).with_suffix(".json"): the descriptor sits
\* beside the content file, under the path without its last suffix
DescriptorPath(ref) == ref.stem

NoDescriptor == [exists |-> FALSE, downloaded |-> FALSE, pdf_link |-> NoRef]

\* is_pdf_downloaded
NeverDownloaded(f, ref) == FALSE
IsPdfDownloaded(f, ref) ==
    LET e == f.desc[DescriptorPath(ref)]
    IN IF e.exists THEN e.downloaded ELSE FALSE

\* json.dump(metadata, f) at the end of process_result_row
WriteDescriptorLost(f, ref, downloaded) == f
WriteDescriptor(f, ref, downloaded) ==
    [f EXCEPT !.desc[DescriptorPath(ref)] =
        [exists |-> TRUE, downloaded |-> downloaded, pdf_link |-> ref]]

\* save_court_tracking_date, run to completion by the only thread of Spec
SaveCourtTrackingDate(c, ct) == WithCourt(GetTrackingData, c, ct)

NoCursor == [iDisplayStart |-> -1, sEcho |-> -1]

CursorOf(sp) == [iDisplayStart |-> sp.iDisplayStart, sEcho |-> sp.sEcho]

NoRequest ==
    [url |-> "none", app_token |-> InitialAppToken, cookie |-> NoCookie,
     portal_token |-> NoCookie, seen |-> 0, self_token |-> InitialAppToken,
     cursor |-> NoCursor, from_date |-> NoDate, why |-> "none",
     seen_cookie |-> NoCookie, session_op |-> "none", pdfs_downloaded |-> 0,
     threshold |-> NoCursor, nth |-> 0, refreshes |-> 0,
     refreshed |-> InitialAppToken]

NoRowYet ==
    [kind |-> "none", ref |-> NoRef, had_true |-> FALSE, fetch |-> FALSE,
     done |-> FALSE, result |-> FALSE, raised |-> FALSE, wrote |-> FALSE,
     wrote_content |-> FALSE, bytes |-> -1, submits |-> 0,
     exhausted |-> FALSE]

\* A state of the run being computed: the Downloader, the files, the
\* observations, and whether save_court_tracking_date is called.
World(d, f, o) == [d |-> d, f |-> f, o |-> o, save |-> FALSE]

Commit(w) ==
    /\ dl' = w.d
    /\ fs' = w.f
    /\ obs' = w.o
    /\ track' = IF w.save
                THEN SaveCourtTrackingDate(w.d.court, w.d.court_tracking)
                ELSE track

\* The next request_api("POST", self.search_url, search_payload) of the loop.
GoSearch(w, why) ==
    [w EXCEPT !.d.pc = "api_send", !.d.api_url = "search", !.d.stack = <<>>,
              !.o.why = why, !.o.apiReqs = 0, !.o.apiRefreshes = 0]

\* The handler of the while loop's try: download() only logs, process_court
\* records from_date in failed_dates and checkpoints; neither leaves the
\* loop.
LoopExcept(w) ==
    LET w1 == GoSearch([w EXCEPT !.o.errRange = w.d.range[1],
                                 !.o.searchAfterErr = FALSE,
                                 !.o.erred = @ \cup {w.d.range[1]}], "error")
    IN IF w.d.mode = "process_court"
       THEN [w1 EXCEPT !.d.court_tracking = CtFailed(@, w.d.range[1]),
                       !.save = TRUE]
       ELSE w1

\* The else branch of the loop: the response holds no result rows.
NoMoreResults(w) ==
    LET to_date == w.d.range[2]
        w1 == [w EXCEPT !.o.zeroRows = to_date]
    IN IF w.d.mode = "download"
       THEN [w1 EXCEPT !.d.pc = "done"]
       ELSE LET r == GetNewDateRange(to_date, 1)
                w2 == [w1 EXCEPT !.d.court_tracking = CtCompleted(@, to_date),
                                 !.save = TRUE]
            IN IF r[1] = NoDate
               THEN [w2 EXCEPT !.d.pc = "done", !.d.range = r]
               ELSE GoSearch(
                      [w2 EXCEPT !.d.range = r,
                                 !.d.search_payload =
                                     [@ EXCEPT !.from_date = r[1], !.to_date = r[2],
                                               !.sEcho = 1, !.iDisplayStart = 0,
                                               !.iDisplayLength = page_size],
                                 !.o.errRange = NoDate],
                      "nextrange")

\* After the for loop over the rows: rotate the session at the threshold,
\* else move the cursor to the next page.
EndOfPage(w) ==
    LET w1 == [w EXCEPT !.d.api_url = "search", !.d.stack = <<>>]
    IN IF ThresholdReached(w1.d.pdfs_downloaded)
       THEN [w1 EXCEPT !.d.pc = "rotate"]
       ELSE GoSearch([w1 EXCEPT !.d.search_payload = PrepareNextIteration(@)],
                     "advance")

\* The for loop takes the next row, if any.
AfterRowEndsPass(w) == EndOfPage(w)
AfterRow(w) ==
    IF w.d.idx + 1 < Len(w.d.rows)
    THEN [w EXCEPT !.d.idx = @ + 1, !.d.pc = "row", !.d.api_url = "search",
                   !.d.stack = <<>>]
    ELSE EndOfPage(w)

\* process_result_row returned is_fresh_download to the row loop.
RowReturn(w, fresh) ==
    LET w1 == [w EXCEPT !.o.lastRow.done = TRUE, !.o.lastRow.result = fresh]
        w2 == IF fresh
              THEN [w1 EXCEPT !.d.pdfs_downloaded = @ + 1]
              ELSE IF w.d.mode = "process_court"
                   THEN [w1 EXCEPT !.d.court_tracking = CtFailed(@, w.d.range[1])]
                   ELSE w1
    IN IF ThresholdReached(w2.d.pdfs_downloaded)
       THEN EndOfPage([w2 EXCEPT !.o.threshold = CursorOf(w.d.search_payload),
                                 !.o.cuts = @ + 1])
       ELSE AfterRow(w2)

\* The handler of the row loop's try: the row is logged and the loop goes on.
RowExceptLeavesLoop(w) ==
    LoopExcept([w EXCEPT !.o.lastRow.done = TRUE, !.o.lastRow.raised = TRUE])
RowExcept(w) ==
    AfterRow([w EXCEPT !.o.lastRow.done = TRUE, !.o.lastRow.raised = TRUE,
                       !.o.erred = @ \cup {w.d.range[1]}])

\* An exception raised below request_api or a session call: it reaches the
\* row loop's handler from within process_result_row, the while loop's
\* handler otherwise.
Raise(w) == IF w.d.api_url = "search" THEN LoopExcept(w) ELSE RowExcept(w)

\* "downloaded": is_pdf_present or is_fresh_download
DownloadedIfFresh(is_pdf_present, is_fresh_download) == is_fresh_download
DownloadedFlag(is_pdf_present, is_fresh_download) ==
    is_pdf_present \/ is_fresh_download

\* process_result_row ends for a row with a document reference: the
\* descriptor is written and is_fresh_download returned.
FinishDocRow(w, fresh) ==
    RowReturn([w EXCEPT !.f = WriteDescriptor(@, w.d.pdf_ref,
                                              DownloadedFlag(w.d.is_pdf_present,
                                                             fresh)),
                        !.o.lastRow.wrote = TRUE],
              fresh)

\* download_pdf after request_api returned x.
DownloadPdfGot(w, x) ==
    CASE x = "link" -> [w EXCEPT !.d.pc = "pdf_get"]
      [] x \in {"nolink", "rejected"} -> FinishDocRow(w, FALSE)
      [] OTHER -> RowExcept(w)

\* request_api returns x while frames of solve_pdf_download_captcha are open:
\* each frame reads x.json(), retries on "Captcha not solved" until its
\* third attempt, then returns the parsed JSON (not a response) to the
\* frame below.
RECURSIVE Unwind(_, _)
Unwind(w, x) ==
    IF w.d.stack = <<>> THEN DownloadPdfGot(w, x)
    ELSE LET n == Len(w.d.stack)
             top == w.d.stack[n]
             popped == [w EXCEPT !.d.stack = SubSeq(@, 1, n - 1)]
         IN IF x \in {"dict", "nonjson"} THEN RowExcept(w)
            ELSE IF x = "rejected"
                 THEN IF top.retries = 2
                      THEN Unwind([popped EXCEPT !.o.lastRow.exhausted = TRUE],
                                  "dict")
                      ELSE [w EXCEPT !.d.stack[n].retries = @ + 1, !.d.pc = "spdc"]
                 ELSE Unwind(popped, x)

\* request_api returns x to its caller.
ApiReturn(w, x) ==
    IF w.d.api_url = "search"
    THEN CASE x = "page" ->
                LET rows == PageOf(w.d.search_payload)
                IN IF Len(rows) > 0
                   THEN [w EXCEPT !.d.rows = rows, !.d.idx = 0, !.d.pc = "row",
                                  !.o.handed = <<>>]
                   ELSE NoMoreResults([w EXCEPT !.o.endKind = x])
           [] x = "noreportrow" -> NoMoreResults([w EXCEPT !.o.endKind = x])
           [] OTHER -> LoopExcept(w)
    ELSE Unwind(w, x)


\* "if payload: payload['app_token'] = self.app_token" before the re-issue
ReissueSamePayload(pl, tok) == pl
ReissuePayload(pl, tok) == [pl EXCEPT !.app_token = tok]

SearchKinds == {"page", "noreportrow", "expire", "errormsg", "nonjson", "neterr"}
LinkKinds == {"link", "nolink", "challenge", "expire", "errormsg", "nonjson", "neterr"}
KindsOf(url) ==
    CASE url = "search" -> SearchKinds
      [] url = "pdflink" -> LinkKinds
      [] OTHER -> LinkKinds \cup {"rejected"}

\* Responses the portal gives when all goes well, each with a new app_token
\* (and, to a search, a new session cookie); the others draw on its budget
\* of faults and may come without a token.
Faulty(kind) == kind \notin {"page", "link"}

\* A portal that is down gives faulty responses without end, and its
\* search CAPTCHA is never solved; any other portal draws on its budget.
CanFail == portal.down \/ portal.budget > 0

Spend(budget) == IF portal.down THEN budget ELSE budget - 1

PagerInit ==
    /\ PartIdle
    /\ StoreIdle
    /\ CapIdle
    /\ SchIdle
    /\ IncIdle
    /\ RowsIdle
    /\ now = 2 * StoreToday + 1
    /\ \E mode \in {"download", "process_court"},
          profile \in {"short", "long", "gated", "down"},
          back \in 0..2, had \in BOOLEAN, listing \in ShortListings :
        LET long == profile # "short"
            today == DateTable[StoreToday]
            last == IF mode = "download" THEN NoDate
                    ELSE DateTable[StoreToday - back]
            ct == [last_date |-> last, failed_dates |-> <<>>]
        IN /\ long => (mode = "download" /\ back = 0 /\ ~had /\ listing = <<>>)
           /\ mode = "download" => back = 0
           /\ track = [c \in CourtSet |-> IF c = "c1" THEN ct ELSE EmptyTracking]
           /\ portal = [listing |-> CASE profile = "long" -> LongListing
                                       [] profile = "gated" -> GatedListing
                                       [] profile = "down" -> <<>>
                                       [] OTHER -> listing,
                        budget |-> CASE profile = "long" -> LongFaults
                                      [] profile = "gated" -> GateFaults
                                      [] profile = "down" -> 0
                                      [] OTHER -> MaxFaults,
                        down |-> profile = "down",
                        token |-> 1, cookie |-> 1, jsession |-> 1]
           /\ fs = [desc |-> [n \in Stems |->
                                IF had /\ n = 1
                                THEN [exists |-> TRUE, downloaded |-> TRUE,
                                      pdf_link |-> Doc(1).ref]
                                ELSE NoDescriptor],
                    content |-> IF had THEN {Doc(1).ref} ELSE {}]
           /\ dl = [mode |-> mode, court |-> "c1", pc |-> "start",
                    session_id |-> NoCookie, ecourts_token |-> NoCookie,
                    app_token |-> InitialAppToken, court_tracking |-> ct,
                    range |-> IF mode = "download" THEN <<today, today>>
                              ELSE <<NoDate, NoDate>>,
                    search_payload |-> DefaultSearchPayload,
                    pdfs_downloaded |-> 0, rows |-> <<>>, idx |-> 0,
                    pdf_ref |-> NoRef, is_pdf_present |-> FALSE,
                    pdf_payload |-> DefaultPdfLinkPayload, stack |-> <<>>,
                    api_url |-> "search"]
    /\ obs = [lastReq |-> NoRequest, why |-> "none", apiReqs |-> 0,
              apiRefreshes |-> 0, refreshedTok |-> InitialAppToken,
              seenTok |-> 0, seenCookie |-> NoCookie, lastRow |-> NoRowYet,
              zeroRows |-> NoDate, errRange |-> NoDate,
              searchAfterErr |-> FALSE, lastSessionOp |-> "none",
              threshold |-> NoCursor, fatal |-> FALSE,
              reqAfterFatal |-> FALSE, established_token |-> NoCookie,
              handed |-> <<>>, erred |-> {}, dropped |-> NoCookie,
              cuts |-> 0, endKind |-> "none"]

\* init_user_session: GET /pdfsearch/ and read the two cookies
InitOutcomes == {"ok", "nosessid", "notoken", "neterr"}

InitUserSession(w, outcome) ==
    LET cookie == NewCookie(portal.cookie)
        w1 == [w EXCEPT !.o.lastSessionOp = "init_user_session"]
    IN CASE outcome = "ok" ->
              [w1 EXCEPT !.d.session_id = cookie,
                         !.d.ecourts_token = NewPortalToken,
                         !.o.seenCookie = cookie, !.o.dropped = NoCookie]
         [] outcome = "nosessid" ->
              [w1 EXCEPT !.d.session_id = NoCookie,
                         !.d.ecourts_token = NewPortalToken]
         [] outcome = "notoken" ->
              [w1 EXCEPT !.d.session_id = cookie, !.d.ecourts_token = NoCookie,
                         !.o.seenCookie = cookie, !.o.dropped = NoCookie,
                         !.o.fatal = TRUE]
         [] OTHER -> w1

InitRaises(outcome) == outcome \in {"notoken", "neterr"}

PortalAfterInit(outcome) ==
    [portal EXCEPT !.budget = IF outcome = "ok" THEN @ ELSE Spend(@),
                   !.cookie = IF outcome \in {"ok", "notoken"}
                              THEN NewCookie(@) ELSE @,
                   !.jsession = IF outcome \in {"ok", "nosessid"}
                                THEN NewPortalToken ELSE @]

\* download() / process_court() up to init_user_session
Begin ==
    /\ dl.pc = "start"
    /\ LET r == IF dl.mode = "download" THEN dl.range
                ELSE GetNewDateRange(LastDateOrDefault(dl.court_tracking), 1)
       IN dl' = IF r[1] = NoDate
                THEN [dl EXCEPT !.pc = "done", !.range = r]
                ELSE [dl EXCEPT !.pc = "establish", !.range = r,
                                !.search_payload =
                                    [DefaultSearchPayload EXCEPT
                                        !.from_date = r[1], !.to_date = r[2]]]
    /\ UNCHANGED <<now, track, partVars, storeVars, extraVars, fs, portal, obs>>

\* the init_user_session before the loop: an exception leaves the method
EstablishInitial ==
    /\ dl.pc = "establish"
    /\ \E outcome \in InitOutcomes :
        /\ outcome # "ok" => CanFail
        /\ LET w == InitUserSession(World(dl, fs, obs), outcome)
           IN Commit(IF InitRaises(outcome)
                     THEN [w EXCEPT !.d.pc = "raised"]
                     ELSE GoSearch([w EXCEPT !.d.search_payload.state_code = w.d.court,
                                             !.d.search_payload.app_token = w.d.app_token,
                                             !.d.pdfs_downloaded = 0,
                                             !.o.established_token = w.d.ecourts_token],
                                   "first"))
        /\ portal' = PortalAfterInit(outcome)
    /\ UNCHANGED <<now, partVars, storeVars, extraVars>>

\* "if pdfs_downloaded >= NO_CAPTCHA_BATCH_SIZE: pdfs_downloaded = 0;
\*  self.init_user_session(); search_payload['app_token'] = self.app_token;
\*  continue"
Rotate ==
    /\ dl.pc = "rotate"
    /\ \E outcome \in InitOutcomes :
        /\ outcome # "ok" => CanFail
        /\ LET w == InitUserSession(
                      World([dl EXCEPT !.pdfs_downloaded = 0], fs, obs), outcome)
           IN Commit(IF InitRaises(outcome)
                     THEN LoopExcept(w)
                     ELSE GoSearch([w EXCEPT !.d.search_payload.app_token = w.d.app_token],
                                   "rotate"))
        /\ portal' = PortalAfterInit(outcome)
    /\ UNCHANGED <<now, partVars, storeVars, extraVars>>

\* request_api: one request and the classification of its response
ApiSend ==
    /\ dl.pc = "api_send"
    /\ \E kind \in KindsOf(dl.api_url), fresh \in BOOLEAN :
        /\ Faulty(kind) => CanFail
        /\ kind \in {"neterr", "nonjson"} => ~fresh
        /\ ~Faulty(kind) => fresh
        /\ kind = "challenge" => Len(dl.stack) < MaxNest
        /\ LET search == dl.api_url = "search"
               pl == IF search THEN dl.search_payload ELSE dl.pdf_payload
               tok == NewTok
               cookie == NewCookie(portal.cookie)
               setsCookie == fresh /\ search
               req == [url |-> dl.api_url, app_token |-> pl.app_token,
                       cookie |-> dl.session_id,
                       portal_token |-> dl.ecourts_token,
                       seen |-> obs.seenTok, self_token |-> dl.app_token,
                       cursor |-> CursorOf(dl.search_payload),
                       from_date |-> dl.search_payload.from_date,
                       why |-> obs.why, seen_cookie |-> obs.seenCookie,
                       session_op |-> obs.lastSessionOp,
                       pdfs_downloaded |-> dl.pdfs_downloaded,
                       threshold |-> IF search THEN obs.threshold ELSE NoCursor,
                       nth |-> obs.apiReqs + 1, refreshes |-> obs.apiRefreshes,
                       refreshed |-> obs.refreshedTok]
               o1 == [obs EXCEPT
                        !.lastReq = req, !.apiReqs = @ + 1,
                        !.threshold = IF search THEN NoCursor ELSE @,
                        !.searchAfterErr =
                            @ \/ (search /\ obs.errRange # NoDate
                                         /\ obs.errRange = pl.from_date),
                        !.seenTok = IF fresh THEN tok ELSE @,
                        !.seenCookie = IF setsCookie THEN cookie ELSE @,
                        !.dropped = IF setsCookie THEN NoCookie ELSE @,
                        !.reqAfterFatal = @ \/ obs.fatal]
               d1 == [dl EXCEPT !.app_token = IF fresh THEN tok ELSE @,
                                !.session_id = IF setsCookie THEN cookie ELSE @]
               w == World(d1, fs, o1)
           IN /\ Commit(CASE kind = "neterr" -> Raise(w)
                          [] kind = "challenge" ->
                               IF fresh
                               THEN [w EXCEPT !.d.stack =
                                                 Append(@, [tok |-> tok, retries |-> 0]),
                                              !.d.pc = "spdc"]
                               ELSE Raise(w)
                          [] kind \in {"expire", "errormsg"} ->
                               [w EXCEPT !.d.pc = "api_refresh"]
                          [] OTHER -> ApiReturn(w, kind))
              /\ portal' = [portal EXCEPT
                              !.budget = IF Faulty(kind) THEN Spend(@) ELSE @,
                              !.token = IF fresh THEN tok ELSE @,
                              !.cookie = IF setsCookie THEN cookie ELSE @]
    /\ UNCHANGED <<now, partVars, storeVars, extraVars>>


\* refresh_token and the two lines after it in request_api: solve the
\* search CAPTCHA, POST the answer, adopt the returned token and cookie,
\* put the token in the payload; the request is then sent again.
RefreshOutcomes == {"ok", "unsolved", "notoken", "neterr"}

\* self.ecourts_token after refresh_token: it assigns app_token, and
\* update_session_id assigns session_id only
PortalTokenReplaced(old, new) == new
PortalTokenAfterRefresh(old, new) == old

ApiRefresh ==
    /\ dl.pc = "api_refresh"
    /\ \E outcome \in RefreshOutcomes :
        /\ outcome # "ok" => CanFail
        /\ outcome = "ok" => ~portal.down
        /\ LET tok == NewTok
               cookie == NewCookie(portal.cookie)
               search == dl.api_url = "search"
               w == World(dl, fs, [obs EXCEPT !.lastSessionOp = "refresh_token"])
           IN IF outcome = "ok"
              THEN /\ Commit([w EXCEPT
                                !.d.app_token = tok, !.d.session_id = cookie,
                                !.d.ecourts_token =
                                    PortalTokenAfterRefresh(@, NewPortalToken),
                                !.d.search_payload =
                                    IF search THEN ReissuePayload(@, tok) ELSE @,
                                !.d.pdf_payload =
                                    IF search THEN @ ELSE ReissuePayload(@, tok),
                                !.d.pc = "api_send",
                                !.o.why = "reissue", !.o.apiRefreshes = @ + 1,
                                !.o.refreshedTok = tok,
                                !.o.seenTok = tok, !.o.seenCookie = cookie,
                                !.o.dropped = NoCookie])
                   /\ portal' = [portal EXCEPT !.token = tok, !.cookie = cookie]
              ELSE /\ Commit(Raise(w))
                   /\ portal' = [portal EXCEPT !.budget = Spend(@)]
    /\ UNCHANGED <<now, partVars, storeVars, extraVars>>

\* solve_pdf_download_captcha up to its request_api call: solve the image,
\* put the answer and the challenge's app_token in the payload
SolvePdfDownloadCaptcha ==
    /\ dl.pc = "spdc"
    /\ \E solved \in BOOLEAN :
        /\ ~solved => CanFail
        /\ LET n == Len(dl.stack)
               top == dl.stack[n]
               w == World(dl, fs, obs)
           IN Commit(IF solved
                     THEN [w EXCEPT !.d.pdf_payload.captcha1 = TRUE,
                                    !.d.pdf_payload.app_token = top.tok,
                                    !.d.api_url = "openpdf",
                                    !.d.pc = "api_send",
                                    !.o.lastRow.submits = @ + 1,
                                    !.o.why = IF top.retries = 0
                                              THEN "answer" ELSE "resubmit",
                                    !.o.apiReqs = 0, !.o.apiRefreshes = 0]
                     ELSE RowExcept(w))
        /\ portal' = [portal EXCEPT !.budget = IF solved THEN @ ELSE Spend(@)]
    /\ UNCHANGED <<now, partVars, storeVars, extraVars>>

\* process_result_row up to download_pdf's request_api call
ProcessResultRow ==
    /\ dl.pc = "row"
    /\ LET row == dl.rows[dl.idx + 1]
           e == fs.desc[DescriptorPath(row.ref)]
           seen == [NoRowYet EXCEPT
                      !.kind = row.kind, !.ref = row.ref,
                      !.had_true = row.kind = "doc" /\ e.exists /\ e.downloaded]
           w == World(dl, fs, [obs EXCEPT !.lastRow = seen,
                                          !.handed = Append(@, row)])
       IN CASE row.kind = "nobutton" -> Commit(RowReturn(w, FALSE))
            [] row.kind = "badonclick" -> Commit(RowExcept(w))
            [] OTHER ->
                 LET is_pdf_present == IsPdfDownloaded(fs, row.ref)
                     w1 == [w EXCEPT !.d.pdf_ref = row.ref,
                                     !.d.is_pdf_present = is_pdf_present]
                 IN IF ~is_pdf_present
                    THEN Commit([w1 EXCEPT
                                   !.d.pdf_payload =
                                       [DefaultPdfLinkPayload EXCEPT
                                           !.path = row.ref, !.val = dl.idx,
                                           !.app_token = dl.app_token],
                                   !.d.api_url = "pdflink", !.d.stack = <<>>,
                                   !.d.pc = "api_send",
                                   !.o.lastRow.fetch = TRUE,
                                   !.o.why = "link",
                                   !.o.apiReqs = 0, !.o.apiRefreshes = 0])
                    ELSE Commit(FinishDocRow(w1, FALSE))
    /\ UNCHANGED <<now, partVars, storeVars, extraVars, portal>>

\* download_pdf from the GET of the document on: requests.request is
\* called directly, and nothing of the response is read but its content,
\* whether or not it sets the session cookie
ContentSizes == {0, NOT_FOUND_SIZE, OtherSize}

\* "if no_of_bytes == 0" / "if no_of_bytes == 315"
RejectedSizeEmptyOnly(no_of_bytes) == no_of_bytes = 0
RejectedSize(no_of_bytes) == no_of_bytes = 0 \/ no_of_bytes = NOT_FOUND_SIZE

PdfGet ==
    /\ dl.pc = "pdf_get"
    /\ \E answered \in BOOLEAN, no_of_bytes \in ContentSizes,
          setsCookie \in BOOLEAN :
        LET good == answered /\ ~RejectedSize(no_of_bytes)
            cookie == NewCookie(portal.cookie)
            w == World(dl, fs,
                       [obs EXCEPT !.lastRow.bytes =
                                       IF answered THEN no_of_bytes ELSE @,
                                   !.seenCookie =
                                       IF setsCookie THEN cookie ELSE @,
                                   !.dropped =
                                       IF setsCookie THEN cookie ELSE @])
        IN /\ ~good => CanFail
           /\ ~answered => no_of_bytes = 0
           /\ setsCookie => answered
           /\ Commit(IF ~answered THEN RowExcept(w)
                     ELSE IF good
                          THEN FinishDocRow(
                                 [w EXCEPT !.f.content = @ \cup {dl.pdf_ref},
                                           !.o.lastRow.wrote_content = TRUE],
                                 TRUE)
                          ELSE FinishDocRow(w, FALSE))
           /\ portal' = [portal EXCEPT
                           !.budget = IF good THEN @ ELSE Spend(@),
                           !.cookie = IF setsCookie THEN cookie ELSE @]
    /\ UNCHANGED <<now, partVars, storeVars, extraVars>>

Next ==
    \/ Begin
    \/ EstablishInitial
    \/ Rotate
    \/ ApiSend
    \/ ApiRefresh
    \/ SolvePdfDownloadCaptcha
    \/ ProcessResultRow
    \/ PdfGet

Spec == PagerInit /\ [][Next]_vars

\* The Downloader's thread keeps running while it has a step to take.
FairSpec == PagerInit /\ [][Next]_vars /\ WF_vars(Next)


(***************************************************************************)
(* solve_captcha: one call by refresh_token (no captcha_url) or by         *)
(* solve_pdf_download_captcha (the challenge's image URL), with the        *)
(* recursive calls it makes.  A step is one activation of the function:    *)
(* the ceiling test, the GET of the image, the file, the OCR result and    *)
(* what the code does with it.                                             *)
(***************************************************************************)

\* "if retries > 10"
CAPTCHA_RETRY_CEILING == 10

\* The module's switch.  It is False in the source; SpecCaptcha explores the
\* build with True as well, whose branches the same function holds.
MATH_CAPTCHA == FALSE

RetriesExceededEarly(retries) == retries >= CAPTCHA_RETRY_CEILING
RetriesExceeded(retries) == retries > CAPTCHA_RETRY_CEILING

\* what reader.readtext and the text tests make of one image
OcrKinds(math) ==
    IF math THEN {"empty", "notexpr", "malformed", "good"}
    ELSE {"empty", "wronglen", "good"}

CapInit ==
    /\ PartIdle
    /\ StoreIdle
    /\ PagerIdle
    /\ SchIdle
    /\ IncIdle
    /\ RowsIdle
    /\ now = 0
    /\ track = [c \in CourtSet |-> EmptyTracking]
    /\ \E math \in {MATH_CAPTCHA, ~MATH_CAPTCHA}, url \in {"None", "img_src"} :
         cap = [pc |-> "call", math |-> math, retries |-> 0,
                captcha_url |-> url, first_url |-> url, fetched |-> "none",
                attempts |-> 0, tmp_files |-> 0, failure_files |-> 0,
                kinds |-> {}]

\* one activation of solve_captcha(retries, captcha_url)
SolveCaptcha ==
    /\ cap.pc = "call"
    /\ IF RetriesExceeded(cap.retries)
       THEN cap' = [cap EXCEPT !.pc = "fatal"]
       ELSE LET url == IF cap.captcha_url = "None" THEN "self.captcha_url"
                       ELSE cap.captcha_url
            IN \/ cap' = [cap EXCEPT !.pc = "neterr", !.fetched = url]
               \/ \E kind \in OcrKinds(cap.math) :
                    LET c1 == [cap EXCEPT !.fetched = url, !.attempts = @ + 1,
                                          !.tmp_files = @ + 1,
                                          !.kinds = IF kind = "good" THEN @
                                                    ELSE @ \cup {kind}]
                    IN cap' =
                         CASE kind = "empty" ->
                                [c1 EXCEPT !.retries = @ + 1, !.captcha_url = url]
                           [] kind = "wronglen" ->
                                [c1 EXCEPT !.retries = @ + 1, !.captcha_url = "None"]
                           [] kind = "notexpr" ->
                                [c1 EXCEPT !.retries = @ + 1, !.captcha_url = url,
                                           !.tmp_files = @ - 1]
                           [] kind = "malformed" ->
                                [c1 EXCEPT !.retries = @ + 1, !.captcha_url = url,
                                           !.tmp_files = @ - 1,
                                           !.failure_files = @ + 1]
                           [] OTHER ->
                                [c1 EXCEPT !.pc = "returned",
                                           !.tmp_files = IF cap.math THEN @ - 1 ELSE @]
    /\ UNCHANGED <<now, track, partVars, storeVars, pagerVars, sch, inc, cc>>

CapNext == SolveCaptcha

SpecCaptcha == CapInit /\ [][CapNext]_vars


(***************************************************************************)
(* run(): the task list is mapped over a ThreadPoolExecutor.  map submits  *)
(* every task at once; the pool's threads take the queued futures in       *)
(* order and call process_task; the main thread then reads the results in  *)
(* order.  A result that is an exception is raised in the main thread,     *)
(* and leaving map's iterator cancels the futures still queued.            *)
(***************************************************************************)

NTasks == 3            \* tasks generate_tasks produced
max_workers == 2       \* run's default

Tasks == 1..NTasks
Workers == 1..max_workers

\* what Downloader(task) and downloader.download() can raise
Exceptions == {"ValueError", "KeyError", "ConnectionError"}

\* "except Exception as e" in process_task
ProcessTaskCatchesNone(e) == FALSE
ProcessTaskCatches(e) == e \in Exceptions

RunInit ==
    /\ PartIdle
    /\ StoreIdle
    /\ PagerIdle
    /\ CapIdle
    /\ IncIdle
    /\ RowsIdle
    /\ now = 0
    /\ track = [c \in CourtSet |-> EmptyTracking]
    /\ sch = [pc |-> "map",
              fut |-> [t \in Tasks |-> "none"],
              starts |-> [t \in Tasks |-> 0],
              outcome |-> [t \in Tasks |-> "none"],
              worker |-> [w \in Workers |-> 0],
              stage |-> [w \in Workers |-> "idle"],
              i |-> 1, completed |-> 0]

\* executor.map(process_task, tasks): one future per task, all queued
RunMap ==
    /\ sch.pc = "map"
    /\ sch' = [sch EXCEPT !.pc = "iterate",
                          !.fut = [t \in Tasks |-> "queued"]]
    /\ UNCHANGED <<now, track, partVars, storeVars, pagerVars, cap, inc, cc>>

\* a pool thread takes the oldest queued future and calls process_task
WorkerTake(w) ==
    /\ sch.worker[w] = 0
    /\ \E t \in Tasks :
        /\ sch.fut[t] = "queued"
        /\ \A u \in Tasks : u < t => sch.fut[u] # "queued"
        /\ sch' = [sch EXCEPT !.worker[w] = t, !.stage[w] = "construct",
                              !.fut[t] = "running", !.starts[t] = @ + 1]
    /\ UNCHANGED <<now, track, partVars, storeVars, pagerVars, cap, inc, cc>>

\* process_task ends: its return value, or the exception it let through,
\* becomes the future's result
EndTask(w, e) ==
    LET t == sch.worker[w]
    IN IF e = "none" \/ ProcessTaskCatches(e)
       THEN [sch EXCEPT !.worker[w] = 0, !.stage[w] = "idle",
                        !.fut[t] = "done",
                        !.outcome[t] = IF e = "none" THEN "returned" ELSE "caught"]
       ELSE [sch EXCEPT !.worker[w] = 0, !.stage[w] = "idle",
                        !.fut[t] = "exception", !.outcome[t] = "raised"]

\* Downloader(task)
TaskConstruct(w) ==
    /\ sch.stage[w] = "construct"
    /\ \/ sch' = [sch EXCEPT !.stage[w] = "download"]
       \/ \E e \in Exceptions : sch' = EndTask(w, e)
    /\ UNCHANGED <<now, track, partVars, storeVars, pagerVars, cap, inc, cc>>

\* downloader.download()
TaskDownload(w) ==
    /\ sch.stage[w] = "download"
    /\ \E e \in Exceptions \cup {"none"} : sch' = EndTask(w, e)
    /\ UNCHANGED <<now, track, partVars, storeVars, pagerVars, cap, inc, cc>>

\* the main thread's loop over the results, in task order
RunResult ==
    /\ sch.pc = "iterate"
    /\ sch.i <= NTasks
    /\ sch.fut[sch.i] \in {"done", "exception"}
    /\ sch' = IF sch.fut[sch.i] = "done"
              THEN [sch EXCEPT !.i = @ + 1, !.completed = @ + 1]
              ELSE [sch EXCEPT !.pc = "raised",
                               !.fut = [t \in Tasks |->
                                          IF sch.fut[t] = "queued"
                                          THEN "cancelled" ELSE sch.fut[t]]]
    /\ UNCHANGED <<now, track, partVars, storeVars, pagerVars, cap, inc, cc>>

\* the with blocks are left and "All tasks completed" is logged
RunDone ==
    /\ sch.pc = "iterate"
    /\ sch.i > NTasks
    /\ sch' = [sch EXCEPT !.pc = "done"]
    /\ UNCHANGED <<now, track, partVars, storeVars, pagerVars, cap, inc, cc>>

RunNext ==
    \/ RunMap
    \/ \E w \in Workers : WorkerTake(w) \/ TaskConstruct(w) \/ TaskDownload(w)
    \/ RunResult
    \/ RunDone

SpecRun == RunInit /\ [][RunNext]_vars


(***************************************************************************)
(* download_court_data and run_incremental_download: the range asked for   *)
(* is computed from the latest date of the index files, or passed in by    *)
(* the caller, and a CourtDateTask is created and downloaded.  Dates are   *)
(* datetime.date values, written as <<y, m, d>>.                           *)
(***************************************************************************)

\* the from_date and to_date of the task run_incremental_download creates
TaskFromDate(start_date) == <<2025, 1, 1>>
TaskToDate(end_date) == <<2025, 9, 9>>

NoTask == [from_date |-> NoDate, to_date |-> NoDate]

\* datetime.now().date()
Today == DateTable[DateOf(now)]

IncInit ==
    /\ PartIdle
    /\ StoreIdle
    /\ PagerIdle
    /\ CapIdle
    /\ SchIdle
    /\ RowsIdle
    /\ now \in 0..(2 * MaxDay + 1)
    /\ track = [c \in CourtSet |-> EmptyTracking]
    /\ \/ \E latest \in WindowDates, test_mode \in BOOLEAN :
            inc = [pc |-> "download_court_data", latest_date |-> latest,
                   test_mode |-> test_mode, start_date |-> NoDate,
                   end_date |-> NoDate, task |-> NoTask, crawled |-> NoTask]
       \/ \E start \in WindowDates, end \in WindowDates \cup {NoDate} :
            /\ end # NoDate => Ordinal(start) <= Ordinal(end)
            /\ inc = [pc |-> "run_incremental_download", latest_date |-> NoDate,
                      test_mode |-> FALSE, start_date |-> start,
                      end_date |-> end, task |-> NoTask, crawled |-> NoTask]

\* download_court_data up to its call of run_incremental_download
DownloadCourtData ==
    /\ inc.pc = "download_court_data"
    /\ LET today == DateOf(now)
           start == Ordinal(inc.latest_date) + 1
       IN inc' = IF Ordinal(inc.latest_date) >= today
                 THEN [inc EXCEPT !.pc = "up_to_date"]
                 ELSE [inc EXCEPT !.pc = "run_incremental_download",
                                  !.start_date = DateTable[start],
                                  !.end_date = IF inc.test_mode
                                               THEN DateTable[start] ELSE Today]
    /\ UNCHANGED <<now, track, partVars, storeVars, pagerVars, cap, sch, cc>>

\* run_incremental_download up to downloader.download()
RunIncrementalDownload ==
    /\ inc.pc = "run_incremental_download"
    /\ LET end_date == IF inc.end_date = NoDate THEN inc.start_date
                       ELSE inc.end_date
       IN inc' = [inc EXCEPT !.end_date = end_date,
                             !.task = [from_date |-> TaskFromDate(inc.start_date),
                                       to_date |-> TaskToDate(end_date)],
                             !.pc = "download"]
    /\ UNCHANGED <<now, track, partVars, storeVars, pagerVars, cap, sch, cc>>

\* downloader.download(): the search payload takes the task's dates
IncDownload ==
    /\ inc.pc = "download"
    /\ inc' = [inc EXCEPT !.crawled = inc.task, !.pc = "done"]
    /\ UNCHANGED <<now, track, partVars, storeVars, pagerVars, cap, sch, cc>>

IncNext == DownloadCourtData \/ RunIncrementalDownload \/ IncDownload

SpecInc == IncInit /\ [][IncNext]_vars


(***************************************************************************)
(* process_result_row in the worker pool: the tasks of run()'s pool each   *)
(* process rows that carry one and the same document reference, each call  *)
(* split at its reads and writes of the shared output directory: the       *)
(* descriptor check, download_pdf, the descriptor write.  The Downloaders  *)
(* are of class Downloader, or FileTrackingDownloader with its             *)
(* force_pdf_download flag.                                                *)
(***************************************************************************)

RowTasks == {"t1", "t2"}

\* rows with the reference in each task's listing
RowCalls == 2

\* the reference the rows share
SharedRef == Doc(1).ref

\* what download_pdf does: True after writing the content, False (no link,
\* or a rejected size), or an exception
FetchOutcomes == {"ok", "false", "raised"}

\* "if pdf_needs_download" / "if self.force_pdf_download or not is_pdf_present"
NeedsDownload(force, is_pdf_present) == force \/ ~is_pdf_present

DescriptorOf(downloaded) ==
    [exists |-> TRUE, downloaded |-> downloaded, pdf_link |-> SharedRef]

RowsInit ==
    /\ PartIdle
    /\ StoreIdle
    /\ PagerIdle
    /\ CapIdle
    /\ SchIdle
    /\ IncIdle
    /\ now = 0
    /\ track = [c \in CourtSet |-> EmptyTracking]
    /\ \E force \in BOOLEAN, alone \in BOOLEAN,
          d0 \in {NoDescriptor, DescriptorOf(TRUE), DescriptorOf(FALSE)} :
        cc = [pc |-> [t \in RowTasks |-> "idle"],
              calls |-> [t \in RowTasks |->
                            IF alone /\ t = "t2" THEN RowCalls ELSE 0],
              alone |-> alone,
              force_pdf_download |-> force,
              is_pdf_present |-> [t \in RowTasks |-> FALSE],
              is_fresh_download |-> [t \in RowTasks |-> FALSE],
              f |-> [desc |-> [n \in Stems |->
                                  IF n = DescriptorPath(SharedRef)
                                  THEN d0 ELSE NoDescriptor],
                     content |-> IF d0.downloaded THEN {SharedRef} ELSE {}],
              fetched |-> 0,
              returned_true |-> [t \in RowTasks |-> FALSE],
              wrote |-> [t \in RowTasks |-> FALSE]]

\* the row loop calls process_result_row for the next row
RowCall(t) ==
    /\ cc.pc[t] = "idle"
    /\ cc.calls[t] < RowCalls
    /\ cc' = [cc EXCEPT !.pc[t] = "check", !.calls[t] = @ + 1,
                        !.is_fresh_download[t] = FALSE,
                        !.returned_true[t] = FALSE, !.wrote[t] = FALSE]
    /\ UNCHANGED <<now, track, partVars, storeVars, pagerVars, cap, sch, inc>>

\* is_pdf_present = self.is_pdf_downloaded(pdf_fragment)
RowCheck(t) ==
    /\ cc.pc[t] = "check"
    /\ LET is_pdf_present == IsPdfDownloaded(cc.f, SharedRef)
       IN cc' = [cc EXCEPT
                   !.is_pdf_present[t] = is_pdf_present,
                   !.pc[t] = IF NeedsDownload(cc.force_pdf_download,
                                              is_pdf_present)
                             THEN "fetch" ELSE "write"]
    /\ UNCHANGED <<now, track, partVars, storeVars, pagerVars, cap, sch, inc>>

\* is_fresh_download = self.download_pdf(pdf_fragment, row_pos)
RowFetch(t) ==
    /\ cc.pc[t] = "fetch"
    /\ \E out \in FetchOutcomes :
        cc' = CASE out = "ok" ->
                     [cc EXCEPT !.f.content = @ \cup {SharedRef},
                                !.fetched = @ + 1,
                                !.is_fresh_download[t] = TRUE,
                                !.returned_true[t] = TRUE,
                                !.pc[t] = "write"]
                [] out = "false" -> [cc EXCEPT !.pc[t] = "write"]
                [] OTHER -> [cc EXCEPT !.pc[t] = "idle"]
    /\ UNCHANGED <<now, track, partVars, storeVars, pagerVars, cap, sch, inc>>

\* json.dump(metadata, f) and the return of is_fresh_download
RowWrite(t) ==
    /\ cc.pc[t] = "write"
    /\ cc' = [cc EXCEPT
                !.f = WriteDescriptor(@, SharedRef,
                                      DownloadedFlag(cc.is_pdf_present[t],
                                                     cc.is_fresh_download[t])),
                !.wrote[t] = TRUE,
                !.pc[t] = "idle"]
    /\ UNCHANGED <<now, track, partVars, storeVars, pagerVars, cap, sch, inc>>

RowsNext ==
    \E t \in RowTasks : RowCall(t) \/ RowCheck(t) \/ RowFetch(t) \/ RowWrite(t)

SpecRows == RowsInit /\ [][RowsNext]_vars


(***************************************************************************)
(* Claims about the partitioner (checked under SpecPart)                   *)
(***************************************************************************)

\* the ranges yielded for court c, in emission order
RangesOf(c) == SelectSeq(p_out, LAMBDA t : t.court = c)

Contiguous(r) ==
    /\ \A i \in 1..Len(r) : Ordinal(r[i].from_date) <= Ordinal(r[i].to_date)
    /\ \A i \in 1..(Len(r) - 1) :
          Ordinal(r[i + 1].from_date) = Ordinal(r[i].to_date) + 1

FullChunks(r, step) ==
    \A i \in 1..(Len(r) - 1) :
        Ordinal(r[i].to_date) - Ordinal(r[i].from_date) + 1 = step

\* C1: with explicit start_date <= end_date and day_step >= 1, the ranges
\* yielded for a court start at start_date, end at end_date, are each
\* non-empty, follow one another without gap or overlap, and all but
\* possibly the last span exactly day_step days.
C1_PartitionCoverage ==
    (Explicit(p_args) /\ Ordinal(p_args.start_date) <= Ordinal(EffectiveEnd(p_args)))
    => \A c \in CourtSet :
         LET r == RangesOf(c)
         IN /\ Contiguous(r)
            /\ FullChunks(r, p_args.day_step)
            /\ Len(r) > 0 => r[1].from_date = p_args.start_date
            /\ p_pc = "done" =>
                 /\ Len(r) > 0
                 /\ r[Len(r)].to_date = EffectiveEnd(p_args)

\* C1 witness: a finished explicit partition of several chunks whose last
\* chunk is truncated to end_date.
C1_Witness ==
    /\ p_pc = "done"
    /\ Explicit(p_args)
    /\ p_args.end_date # NoDate
    /\ LET r == RangesOf("c1")
       IN /\ Len(r) >= 2
          /\ Ordinal(r[Len(r)].to_date) - Ordinal(r[Len(r)].from_date) + 1
               < p_args.day_step

\* C2: without explicit bounds and with last_date = D in the store, the
\* ranges of the court start at D+1, are contiguous, end at the current
\* date, hold no date <= D, and none is yielded when D is today or later.
C2_ResumeCorrectness ==
    (p_args.start_date = NoDate)
    => \A c \in CourtSet :
         (track[c].last_date # NoDate) =>
           LET r == RangesOf(c)
               D == Ordinal(track[c].last_date)
               today == DateOf(now)
           IN /\ Contiguous(r)
              /\ \A i \in 1..Len(r) : Ordinal(r[i].from_date) > D
              /\ Len(r) > 0 => Ordinal(r[1].from_date) = D + 1
              /\ D >= today => Len(r) = 0
              /\ (p_pc = "done" /\ D < today) =>
                   /\ Len(r) > 0
                   /\ Ordinal(r[Len(r)].to_date) = today

\* C2 witness: a finished resume of several chunks from a stored last_date,
\* the clock being past midnight.
C2_Witness ==
    /\ p_pc = "done"
    /\ p_args.start_date = NoDate
    /\ track["c1"].last_date # NoDate
    /\ now % 2 = 1
    /\ Len(RangesOf("c1")) >= 2
    /\ p_args.day_step >= 2

\* C26: for every day_step the command line accepts, iterating
\* generate_tasks terminates.
C26_PartitionTerminates == <>(p_pc = "done")


\* C38: for a court without an entry in the store, the partitioner without
\* explicit bounds starts its first range on 2008-01-02, the day after
\* START_DATE, and no range it yields holds 2008-01-01.
C38_FirstCrawlStart ==
    (p_args.start_date = NoDate)
    => \A c \in CourtSet :
         (track[c].last_date = NoDate) =>
           LET r == RangesOf(c)
           IN /\ Len(r) > 0 => r[1].from_date = <<2008, 1, 2>>
              /\ \A i \in 1..Len(r) :
                    Ordinal(r[i].from_date) > Ordinal(START_DATE)
              /\ (p_pc = "done" /\ DateOf(now) > Ordinal(START_DATE)) =>
                    Len(r) > 0

C38_Witness ==
    /\ p_pc = "done"
    /\ p_args.start_date = NoDate
    /\ track["c1"].last_date = NoDate
    /\ Len(RangesOf("c1")) >= 2
    /\ RangesOf("c1")[1].from_date = <<2008, 1, 2>>


(***************************************************************************)
(* Claims about the progress store (checked under SpecStore)               *)
(***************************************************************************)

\* the last completed date a reader of the store gets for an entry
LastOrd(entry) == Ordinal(LastDateOrDefault(entry))

\* C3: the last_date the store holds for a court never decreases over
\* any sequence of checkpoints, Downloaders of one court that were built
\* from the same snapshot and run concurrently included.
C3_ProgressMonotone ==
    [][\A c \in CourtSet : LastOrd(track'[c]) >= LastOrd(track[c])]_vars

InCycle(d) == s_pc[d] \in {"read", "write", "release"}

\* C4: at most one thread is between the read and the write-back of
\* save_court_tracking_date, and the store holds for every court the entry
\* of that court's most recent checkpoint (no update is lost).
C4_CheckpointAtomicity ==
    /\ Cardinality({d \in Downloaders : InCycle(d)}) <= 1
    /\ \A c \in CourtSet :
         (/\ s_last[c] # NoCheckpoint
          /\ ~\E d \in Downloaders : s_court[d] = c /\ s_pc[d] \in {"read", "write"})
         => track[c] = s_last[c]

\* C4 witness: a Downloader of one court is about to write back while a
\* Downloader of another court, which checkpointed before, waits for the
\* lock.
C4_Witness ==
    /\ s_court["d1"] # s_court["d2"]
    /\ s_pc["d1"] = "write"
    /\ s_pc["d2"] = "acquire"
    /\ s_last[s_court["d2"]] # NoCheckpoint
    /\ track[s_court["d2"]] = s_last[s_court["d2"]]

\* C22: when the write of the progress file fails or is interrupted
\* part-way, the store still holds, readable, the contents committed before.
C22_FailedWriteKeepsStore ==
    \A d \in Downloaders :
        s_pc[d] = "interrupted" => (Readable(track) /\ track = s_td[d])

ReadsStore(d) ==
    \/ s_pc[d] = "new" /\ s_pc'[d] # "new"
    \/ s_pc[d] = "read" /\ s_pc'[d] # "read"

\* C23: every read of the store is made by a thread that holds the lock,
\* and never while another thread is between emptying the progress file
\* and finishing its write.
C23_ReadsUnderLock ==
    [][\A d \in Downloaders :
          ReadsStore(d) =>
              /\ lock = d
              /\ ~\E e \in Downloaders \ {d} : s_pc[e] = "dump"]_vars


\* C31: save_court_tracking_date releases the lock on every path: a thread
\* whose checkpoint raised while reading or writing the progress file does
\* not hold the lock afterwards.
C31_LockReleased ==
    \A d \in Downloaders :
        s_pc[d] \in {"raised", "interrupted"} => lock # d


(***************************************************************************)
(* Claims about the pager (checked under Spec)                             *)
(***************************************************************************)

InSeq(x, seq) == \E i \in 1..Len(seq) : seq[i] = x

C6_RefreshAtThreshold ==
    obs.lastReq.threshold # NoCursor =>
        /\ obs.lastReq.session_op = "refresh_token"
        /\ obs.lastReq.pdfs_downloaded = 0
        /\ obs.lastReq.cursor = obs.lastReq.threshold

\* C6 (amended): the counter reaches NO_CAPTCHA_BATCH_SIZE exactly when the
\* row loop has been left for the rotation; the search request that follows
\* is preceded by init_user_session (a new handshake, not refresh_token),
\* with the counter at 0 and the cursor and echo counter of the interrupted
\* request.
C6_RotationAtThreshold ==
    /\ dl.pdfs_downloaded >= NO_CAPTCHA_BATCH_SIZE <=> dl.pc = "rotate"
    /\ dl.pc = "rotate" => dl.pdfs_downloaded = NO_CAPTCHA_BATCH_SIZE
    /\ obs.lastReq.threshold # NoCursor =>
           /\ obs.lastReq.session_op = "init_user_session"
           /\ obs.lastReq.pdfs_downloaded = 0
           /\ obs.lastReq.cursor = obs.lastReq.threshold

\* a search request has been sent after the threshold was reached
C6_Witness ==
    /\ obs.lastReq.threshold # NoCursor
    /\ obs.lastReq.url = "search"

\* C7: after a search response with zero result rows, the court's entry in
\* the progress store has last_date equal to the end date of the range.
C7_EndOfRangeCheckpoint ==
    obs.zeroRows # NoDate => track[dl.court].last_date = obs.zeroRows

\* C8: after an exception reached the handler of the pager loop, the start
\* date of the range is in the court's failed_dates in the progress store
\* and no search request for that range has been sent since.
C8_MidRangeFailure ==
    obs.errRange # NoDate =>
        /\ InSeq(obs.errRange, track[dl.court].failed_dates)
        /\ ~obs.searchAfterErr

\* C9: every request sent through request_api carries in its payload the
\* app_token most recently observed in a response, and in its Cookie header
\* the most recently observed session cookie.
C9_FreshestCredential ==
    obs.lastReq.url # "none" =>
        /\ obs.lastReq.seen # 0 => obs.lastReq.app_token = obs.lastReq.seen
        /\ obs.lastReq.seen_cookie # NoCookie =>
               obs.lastReq.cookie = obs.lastReq.seen_cookie

\* C10 (as stated): one request_api call sends at most two requests.
C10_AtMostTwoRequests == obs.lastReq.nth <= 2

\* C10 (amended): within one request_api call, every response signalling
\* expiry or an application error is followed by one refresh_token and one
\* re-issue whose payload carries the refreshed token; the call has sent one
\* request more than it has refreshed, however many times that is.
C10_RefreshThenReissue ==
    /\ obs.lastReq.url # "none" => obs.lastReq.nth = obs.lastReq.refreshes + 1
    /\ obs.lastReq.why = "reissue" =>
           obs.lastReq.app_token = obs.lastReq.refreshed
    /\ dl.pc = "api_refresh" => obs.apiReqs = obs.apiRefreshes + 1

\* the second re-issue within one request_api call has been sent
C10_Witness ==
    /\ obs.lastReq.why = "reissue"
    /\ obs.lastReq.nth = 3

\* C12: when the document GET returns 0 or NOT_FOUND_SIZE bytes, download_pdf
\* returns False and writes no content file, and the descriptor written for
\* the row says downloaded = false.
C12_SentinelRejected ==
    (obs.lastRow.done /\ obs.lastRow.bytes \in {0, NOT_FOUND_SIZE}) =>
        /\ ~obs.lastRow.result
        /\ ~obs.lastRow.wrote_content
        /\ obs.lastRow.ref \notin fs.content
        /\ fs.desc[DescriptorPath(obs.lastRow.ref)].exists
        /\ ~fs.desc[DescriptorPath(obs.lastRow.ref)].downloaded

\* a document GET has returned exactly NOT_FOUND_SIZE bytes and the row's
\* process_result_row has returned
C12_Witness ==
    /\ obs.lastRow.done
    /\ obs.lastRow.bytes = NOT_FOUND_SIZE
    /\ obs.lastRow.wrote


\* C13: for a row from which no document reference can be extracted (no
\* button, no onclick, or an onclick that is no open_pdf call),
\* process_result_row returns False without raising and without calling
\* download_pdf.
C13_UnsupportedRow ==
    (obs.lastRow.done /\ obs.lastRow.kind \in {"nobutton", "badonclick"}) =>
        /\ ~obs.lastRow.raised
        /\ ~obs.lastRow.result
        /\ ~obs.lastRow.fetch

\* C14: after a CAPTCHA challenge to a row's link-resolution request, the
\* answer is submitted at most 3 times in total for the row, and when the
\* third answer is rejected download_pdf returns False without raising.
C14_GatedLinkBound ==
    /\ obs.lastRow.submits <= 3
    /\ (obs.lastRow.done /\ obs.lastRow.exhausted) =>
           (~obs.lastRow.raised /\ ~obs.lastRow.result)


\* C16: once a handshake response lacked the portal token, the Downloader
\* sends no further request to the portal in that task, at the initial
\* establishment and at a rotation alike.
C16_FatalEstablish == obs.fatal => ~obs.reqAfterFatal

\* C18: when a task's exception has reached process_task's handler, the
\* task's from_date is in the court's failed_dates in the progress store.
C18_BoundaryFailureRecorded ==
    dl.pc = "raised" => InSeq(dl.range[1], track[dl.court].failed_dates)

\* C19: every process_result_row call on a row with a document reference
\* ends with the descriptor written, with the row's reference and
\* downloaded = (downloaded before the call or freshly downloaded by it).
C19_DescriptorAlwaysWritten ==
    (obs.lastRow.done /\ obs.lastRow.kind = "doc") =>
        /\ obs.lastRow.wrote
        /\ fs.desc[DescriptorPath(obs.lastRow.ref)].pdf_link = obs.lastRow.ref
        /\ fs.desc[DescriptorPath(obs.lastRow.ref)].downloaded =
               (obs.lastRow.had_true \/ obs.lastRow.result)

\* C20 (as stated): after the initial establish, self.ecourts_token is
\* changed only by refresh_token.
C20_OnlyRefreshChangesPortalToken ==
    [][(dl.pc # "establish" /\ dl'.ecourts_token # dl.ecourts_token)
           => dl.pc = "api_refresh"]_vars

\* C20 (amended): self.ecourts_token is changed only by init_user_session,
\* at the initial establish and at the rate-limit rotation; request_api,
\* refresh_token, the CAPTCHA calls and the document GET leave it unchanged.
C20_PortalTokenFrame ==
    [][dl'.ecourts_token # dl.ecourts_token
           => dl.pc \in {"establish", "rotate"}]_vars

\* the search request after a rotation carries another portal token than
\* the initial establish gave
C20_Witness ==
    /\ obs.lastReq.why = "rotate"
    /\ obs.established_token # NoCookie
    /\ obs.lastReq.portal_token # obs.established_token


\* C17: every started task eventually finishes: download() returns, or
\* raises to process_task.
C17_TaskTerminates == <>(dl.pc \in {"done", "raised"})


\* C21: the rows of a page are handed to process_result_row in listing
\* order, and the search cursor moves, by page_size, only after a pass in
\* which every row of the page was handed over and which the download
\* threshold did not cut short.
IsPrefix(a, b) == Len(a) <= Len(b) /\ SubSeq(b, 1, Len(a)) = a

CursorAdvances ==
    dl'.search_payload.iDisplayStart > dl.search_payload.iDisplayStart

C21_SequentialPagination ==
    /\ [](IsPrefix(obs.handed, dl.rows))
    /\ [][CursorAdvances =>
             /\ dl'.search_payload.iDisplayStart =
                    dl.search_payload.iDisplayStart + page_size
             /\ obs'.handed = dl.rows
             /\ ~ThresholdReached(dl'.pdfs_downloaded)
             /\ dl'.pc = "api_send" /\ dl'.api_url = "search"]_vars
    /\ [][ThresholdReached(dl'.pdfs_downloaded) =>
             dl'.search_payload.iDisplayStart =
                 dl.search_payload.iDisplayStart]_vars

C21_Witness ==
    /\ obs.why = "advance"
    /\ dl.search_payload.iDisplayStart = page_size
    /\ obs.handed = dl.rows
    /\ Len(obs.handed) = LongLen
    /\ obs.lastRow.result


\* C24: a date is in a court's failed_dates only if processing that date
\* raised an error; a dedup hit or a row processed without error adds none.
C24_FailedDatesOnlyOnError ==
    \A i \in 1..Len(track[dl.court].failed_dates) :
        track[dl.court].failed_dates[i] \in obs.erred


\* C25: when the Downloader is about to send a request, its app_token is
\* the one most recently carried by a response and its session_id the
\* cookie most recently set by a response, whichever request the response
\* answered.
C25_CredentialsAdopted ==
    dl.pc = "api_send" =>
        /\ obs.seenTok # 0 => dl.app_token = obs.seenTok
        /\ obs.dropped = NoCookie


\* a step in which the row being processed raised
RowRaises ==
    /\ obs'.lastRow.raised
    /\ ~obs.lastRow.raised \/ Len(obs'.handed) = Len(obs.handed) + 1

\* C29: when a row raises, the fresh-download counter is unchanged, the
\* task goes on, and the row handed over next is the next row of the same
\* page, or after the last row the next page is requested.
C29_RowErrorIsolation ==
    [][RowRaises =>
          /\ dl'.pdfs_downloaded = dl.pdfs_downloaded
          /\ dl'.rows = dl.rows
          /\ IF Len(obs'.handed) < Len(dl.rows)
             THEN dl'.pc = "row" /\ dl'.idx = Len(obs'.handed)
             ELSE /\ dl'.pc = "api_send"
                  /\ obs'.why = "advance"
                  /\ obs'.handed = dl.rows]_vars

C29_Witness ==
    /\ obs.lastRow.raised
    /\ obs.lastRow.kind = "badonclick"
    /\ dl.pc = "row"
    /\ dl.idx = 2
    /\ dl.pdfs_downloaded = 1


\* C32: every request sent through request_api goes out with a portal
\* token and a session_id that are not None, after a rotation's
\* init_user_session as well, whether it succeeded or raised.
C32_NoRequestWithoutCredentials ==
    obs.lastReq.url # "none" =>
        /\ obs.lastReq.portal_token # NoCookie
        /\ obs.lastReq.cookie # NoCookie


\* the documents whose descriptor says downloaded = true
DownloadedStems == {n \in Stems : fs.desc[n].exists /\ fs.desc[n].downloaded}

C34_EndOfResultsClassification == obs.endKind \in {"none", "page"}


CursorChanges == CursorOf(dl'.search_payload) # CursorOf(dl.search_payload)

\* C37: the search payload always has iDisplayLength = page_size,
\* iDisplayStart a non-negative multiple of page_size and
\* sEcho = iDisplayStart / page_size + 1; the cursor changes only by a page
\* advance (page_size and 1 are added) or, in process_court, by the start
\* of the next range; a rotation, a refresh-and-retry or an error changes
\* neither field.
C37_CursorInvariant ==
    /\ [](LET sp == dl.search_payload
          IN /\ sp.iDisplayLength = page_size
             /\ sp.iDisplayStart >= 0
             /\ sp.iDisplayStart % page_size = 0
             /\ sp.sEcho = (sp.iDisplayStart \div page_size) + 1)
    /\ [][CursorChanges =>
            \/ /\ obs'.why = "advance"
               /\ dl'.search_payload.iDisplayStart =
                      dl.search_payload.iDisplayStart + page_size
               /\ dl'.search_payload.sEcho = dl.search_payload.sEcho + 1
            \/ /\ obs'.why = "nextrange"
               /\ dl'.search_payload.iDisplayStart = 0
               /\ dl'.search_payload.sEcho = 1]_vars

\* C37 witness: a search request for the second page is re-issued after a
\* token refresh.
C37_Witness ==
    /\ obs.lastReq.url = "search"
    /\ obs.lastReq.why = "reissue"
    /\ obs.lastReq.cursor = [iDisplayStart |-> page_size, sEcho |-> 2]


\* C39: whenever a descriptor with downloaded = true exists for a document
\* reference, the validated bytes of that reference were written to its
\* content path before; download_pdf returns True only after it has written
\* the content file.
C39_DescriptorImpliesContent ==
    /\ \A n \in Stems :
           (fs.desc[n].exists /\ fs.desc[n].downloaded)
               => fs.desc[n].pdf_link \in fs.content
    /\ obs.lastRow.result => obs.lastRow.wrote_content


(***************************************************************************)
(* Claims about solve_captcha (checked under SpecCaptcha)                  *)
(***************************************************************************)

\* C11: solve_captcha raises its fatal error only after the initial attempt
\* and CAPTCHA_RETRY_CEILING retries have all failed, and it never makes
\* more recognition attempts than that, whatever the kinds of failure.
C11_CaptchaRetryBound ==
    /\ cap.attempts <= CAPTCHA_RETRY_CEILING + 1
    /\ cap.pc = "fatal" =>
           /\ cap.retries = CAPTCHA_RETRY_CEILING + 1
           /\ cap.attempts = CAPTCHA_RETRY_CEILING + 1
    /\ (cap.pc = "call" /\ cap.attempts = CAPTCHA_RETRY_CEILING + 1) =>
           RetriesExceeded(cap.retries)

\* the fatal error has been raised after failures of more than one kind
C11_Witness ==
    /\ cap.pc = "fatal"
    /\ Cardinality(cap.kinds) >= 2

\* C27: in solve_captcha(captcha_url=U) every recognition attempt, retries
\* included, downloads the image from U.
C27_SameCaptchaUrl ==
    (cap.first_url = "img_src" /\ cap.fetched # "none") =>
        cap.fetched = cap.first_url

\* C28: when solve_captcha returns an answer, no image file it wrote is
\* left in the temp directory.
C28_CaptchaImagesDeleted == cap.pc = "returned" => cap.tmp_files = 0


(***************************************************************************)
(* Claims about run() (checked under SpecRun)                              *)
(***************************************************************************)

C30_IncrementalRange ==
    inc.pc \in {"download", "done"} =>
        /\ inc.task.from_date = inc.start_date
        /\ inc.task.to_date = inc.end_date
        /\ (inc.pc = "done" /\ inc.latest_date # NoDate) =>
              /\ inc.crawled.from_date = DateTable[Ordinal(inc.latest_date) + 1]
              /\ inc.crawled.to_date \in {DateTable[n] : n \in 0..DateOf(now)}

(***************************************************************************)
(* Claims about process_result_row in the pool (checked under SpecRows)    *)
(***************************************************************************)

\* C35: a document reference that is in the listings of two tasks running
\* in the pool is fetched and written at most once in total.
C35_AtMostOnceFetch == ~cc.force_pdf_download => cc.fetched <= 1

SharedDescriptor == cc.f.desc[DescriptorPath(SharedRef)]

====
